---- MODULE Spec2Model ----
(***************************************************************************)
(* A model of the SymTable ADT of src/symtablehash.c (hash table with      *)
(* separate chaining and staged growth), as declared in src/symtable.h,    *)
(* and of its second implementation, src/symtablelist.c (one linked list). *)
(*                                                                         *)
(* A chain (a NULL-terminated list of Binding nodes linked by pNext) is a  *)
(* sequence of bindings, head first.  A key is the sequence of its bytes   *)
(* (1..255, the terminating '\0' left out), a value is an opaque pointer:  *)
(* NULL or one of the client's objects.  The bucket array is a function    *)
(* from 0..uBucketCount-1 to chains.                                       *)
(*                                                                         *)
(* The growth table `primes` keeps the shape of the source's table (a      *)
(* strictly ascending sequence, walked one step per resize and capped at   *)
(* its last entry) with small entries, so that every threshold can be      *)
(* crossed by a handful of insertions.                                     *)
(***************************************************************************)
EXTENDS Integers, Sequences, FiniteSets, TLC

VARIABLES
    oSymTable,   \* the client's table: a struct SymTable, or NullTable
    heap,        \* the live allocations made by the module, by kind
    charSigned,  \* whether plain char is signed in this build
    op,          \* the last call made by the client and what it returned
    hist,        \* what the client did since SymTable_new (for put-only runs)
    oSymTableList,  \* the table of a client linked with symtablelist.c
    opList,         \* what that client's last call returned
    links           \* the table as nodes and pointers (pNext, bucket heads)

vars ==
    <<oSymTable, heap, charSigned, op, hist, oSymTableList, opList, links>>

----------------------------------------------------------------------------
(* Bounds of the model *)

\* how many of the keys of KeyPool the client uses
NumKeys == 4

\* how many distinct non-NULL values the client stores
NumValues == 1

----------------------------------------------------------------------------
(* Constants of the program *)

NULL == 0

HASH_MULTIPLIER == 65599

\* sizeof(size_t), in bytes
SizeBytes == 8

\* the growth table (scaled down: the source's entries are 509 .. 65521)
primes == <<1, 2, 3>>

numPrimes == Len(primes)

\* The client's keys, as byte strings: "a", "b", "ab", a byte above 127,
\* a key long enough for the hash to wrap, "c".
KeyPool ==
    << <<97>>, <<98>>, <<97, 98>>, <<200>>,
       <<104, 101, 108, 108, 111, 119, 111, 114, 108, 100>>, <<99>>, <<100>> >>

Keys == {KeyPool[i] : i \in 1..NumKeys}

Values == 0..NumValues

----------------------------------------------------------------------------
(* SymTable_hash: size_t arithmetic on little-endian base-256 digits *)

\* (size_t)c for a char c holding byte b: where plain char is signed, a
\* byte above 127 is negative and converts to 2^w + (b - 256)
CharToSize(b, signed) ==
    [i \in 1..SizeBytes |->
        IF i = 1 THEN b ELSE IF signed /\ b >= 128 THEN 255 ELSE 0]

\* digits i.. of uHash * HASH_MULTIPLIER + c, the carry out of the last
\* digit dropped (size_t wraps)
RECURSIVE MulAdd(_, _, _, _)
MulAdd(uHash, c, i, carry) ==
    IF i > SizeBytes THEN <<>>
    ELSE LET t == uHash[i] * HASH_MULTIPLIER + c[i] + carry
         IN  <<t % 256>> \o MulAdd(uHash, c, i + 1, t \div 256)

\* the loop over the key's bytes, from byte u with uHash so far
RECURSIVE HashLoop(_, _, _, _)
HashLoop(pcKey, u, uHash, signed) ==
    IF u > Len(pcKey) THEN uHash
    ELSE HashLoop(pcKey, u + 1,
                  MulAdd(uHash, CharToSize(pcKey[u], signed), 1, 0), signed)

\* uHash % m, from the most significant digit i down
RECURSIVE ModDigits(_, _, _, _)
ModDigits(uHash, i, r, m) ==
    IF i = 0 THEN r
    ELSE ModDigits(uHash, i - 1, (r * 256 + uHash[i]) % m, m)

\* SymTable_hash in a build where plain char is signed, or is not
HashOf(pcKey, uBucketCount, signed) ==
    ModDigits(HashLoop(pcKey, 1, [i \in 1..SizeBytes |-> 0], signed),
              SizeBytes, 0, uBucketCount)

\* HashOf, computed once for the keys and bucket counts of the model
HashMemo ==
    [signed \in BOOLEAN |->
        [pcKey \in Keys |->
            [n \in {primes[i] : i \in 1..numPrimes} |->
                HashOf(pcKey, n, signed)]]]

SymTable_hash(pcKey, uBucketCount) ==
    HashMemo[charSigned][pcKey][uBucketCount]

----------------------------------------------------------------------------
(* Bindings, chains, tables *)

Binding(pcKey, pvValue) == [pcKey |-> pcKey, pvValue |-> pvValue]

\* no table: the client's pointer is NULL (or was handed to SymTable_free)
NullTable ==
    [ppBuckets |-> <<>>, uBucketCount |-> 0, uLength |-> 0, uPrimeIndex |-> 0]

EmptyHeap == [nTable |-> 0, nArray |-> 0, nBinding |-> 0, nKey |-> 0]

\* the walk "for (pCurr = head; pCurr != NULL; pCurr = pCurr->pNext)
\* if (strcmp(pCurr->pcKey, pcKey) == 0)": the position of the first binding
\* of the chain, from position i on, whose key is pcKey; 0 when there is none
RECURSIVE ChainFind(_, _, _)
ChainFind(chain, pcKey, i) ==
    IF i > Len(chain) THEN 0
    ELSE IF chain[i].pcKey = pcKey THEN i
    ELSE ChainFind(chain, pcKey, i + 1)

\* the chain without its binding at position i (pPrev->pNext = pCurr->pNext,
\* or the bucket head = pCurr->pNext when i = 1)
Unlink(chain, i) ==
    SubSeq(chain, 1, i - 1) \o SubSeq(chain, i + 1, Len(chain))

----------------------------------------------------------------------------
(* expandTable *)

\* the inner loop with each binding going to the end of its new bucket
RECURSIVE RehashChain_append(_, _, _)
RehashChain_append(chain, ppNewBuckets, newBucketCount) ==
    IF chain = <<>> THEN ppNewBuckets
    ELSE LET pCurr == Head(chain)
             newIndex == SymTable_hash(pCurr.pcKey, newBucketCount)
         IN  RehashChain_append(Tail(chain),
                 [ppNewBuckets EXCEPT ![newIndex] = @ \o <<pCurr>>],
                 newBucketCount)

\* the inner loop: each binding of the chain, in chain order, goes to the
\* head of its new bucket
RECURSIVE RehashChain(_, _, _)
RehashChain(chain, ppNewBuckets, newBucketCount) ==
    IF chain = <<>> THEN ppNewBuckets
    ELSE LET pCurr == Head(chain)
             newIndex == SymTable_hash(pCurr.pcKey, newBucketCount)
         IN  RehashChain(Tail(chain),
                 [ppNewBuckets EXCEPT ![newIndex] = <<pCurr>> \o @],
                 newBucketCount)

\* the outer loop, from bucket i of the old array
RECURSIVE RehashBuckets(_, _, _, _)
RehashBuckets(t, i, ppNewBuckets, newBucketCount) ==
    IF i >= t.uBucketCount THEN ppNewBuckets
    ELSE RehashBuckets(t, i + 1,
             RehashChain(t.ppBuckets[i], ppNewBuckets, newBucketCount),
             newBucketCount)

\* expandTable with each binding's new index computed against the old
\* bucket count
expandTable_oldCount(t, h, mallocOk) ==
    IF t.uPrimeIndex + 1 >= numPrimes THEN [t |-> t, heap |-> h, ret |-> 1]
    ELSE LET newPrimeIndex == t.uPrimeIndex + 1
             newBucketCount == primes[newPrimeIndex + 1]
         IN  IF ~mallocOk THEN [t |-> t, heap |-> h, ret |-> 0]
             ELSE [t |-> [ppBuckets |->
                              RehashBuckets(t, 0,
                                  [i \in 0..(newBucketCount - 1) |-> <<>>],
                                  t.uBucketCount),
                          uBucketCount |-> newBucketCount,
                          uLength |-> t.uLength,
                          uPrimeIndex |-> newPrimeIndex],
                   heap |-> h,
                   ret |-> 1]

\* expandTable setting uPrimeIndex before the malloc that fails
expandTable_failAdvancesIndex(t, h, mallocOk) ==
    IF t.uPrimeIndex + 1 >= numPrimes THEN [t |-> t, heap |-> h, ret |-> 1]
    ELSE LET newPrimeIndex == t.uPrimeIndex + 1
             newBucketCount == primes[newPrimeIndex + 1]
         IN  IF ~mallocOk
                 THEN [t |-> [t EXCEPT !.uPrimeIndex = newPrimeIndex],
                       heap |-> h, ret |-> 0]
             ELSE [t |-> [ppBuckets |->
                              RehashBuckets(t, 0,
                                  [i \in 0..(newBucketCount - 1) |-> <<>>],
                                  newBucketCount),
                          uBucketCount |-> newBucketCount,
                          uLength |-> t.uLength,
                          uPrimeIndex |-> newPrimeIndex],
                   heap |-> h,
                   ret |-> 1]

\* expandTable growing step after step until the bindings fit
RECURSIVE expandTable_untilFits(_, _, _)
expandTable_untilFits(t, h, mallocOk) ==
    IF t.uPrimeIndex + 1 >= numPrimes THEN [t |-> t, heap |-> h, ret |-> 1]
    ELSE LET newPrimeIndex == t.uPrimeIndex + 1
             newBucketCount == primes[newPrimeIndex + 1]
             grown == [ppBuckets |->
                           RehashBuckets(t, 0,
                               [i \in 0..(newBucketCount - 1) |-> <<>>],
                               newBucketCount),
                       uBucketCount |-> newBucketCount,
                       uLength |-> t.uLength,
                       uPrimeIndex |-> newPrimeIndex]
         IN  IF ~mallocOk THEN [t |-> t, heap |-> h, ret |-> 0]
             ELSE IF grown.uLength > grown.uBucketCount
                 THEN expandTable_untilFits(grown, h, mallocOk)
             ELSE [t |-> grown, heap |-> h, ret |-> 1]

\* mallocOk: whether the malloc of the new bucket array succeeds
expandTable(t, h, mallocOk) ==
    IF t.uPrimeIndex + 1 >= numPrimes THEN [t |-> t, heap |-> h, ret |-> 1]
    ELSE LET newPrimeIndex == t.uPrimeIndex + 1
             newBucketCount == primes[newPrimeIndex + 1]
         IN  IF ~mallocOk THEN [t |-> t, heap |-> h, ret |-> 0]
             ELSE [t |-> [ppBuckets |->
                              RehashBuckets(t, 0,
                                  [i \in 0..(newBucketCount - 1) |-> <<>>],
                                  newBucketCount),
                          uBucketCount |-> newBucketCount,
                          uLength |-> t.uLength,
                          uPrimeIndex |-> newPrimeIndex],
                   \* one array allocated, the old one freed
                   heap |-> [h EXCEPT !.nArray = @ + 1 - 1],
                   ret |-> 1]

----------------------------------------------------------------------------
(* The operations of symtable.h *)

\* SymTable_new without free(oSymTable) when the malloc of the bucket array
\* fails
SymTable_new_leaksTable(h, okTable, okArray) ==
    IF ~okTable THEN [t |-> NullTable, heap |-> h]
    ELSE IF ~okArray
        THEN [t |-> NullTable, heap |-> [h EXCEPT !.nTable = @ + 1]]
    ELSE [t |-> [ppBuckets |-> [i \in 0..(primes[1] - 1) |-> <<>>],
                 uBucketCount |-> primes[1],
                 uLength |-> 0,
                 uPrimeIndex |-> 0],
          heap |-> [h EXCEPT !.nTable = @ + 1, !.nArray = @ + 1]]

\* okTable, okArray: whether the two mallocs succeed
SymTable_new(h, okTable, okArray) ==
    IF ~okTable THEN [t |-> NullTable, heap |-> h]
    ELSE IF ~okArray THEN [t |-> NullTable, heap |-> h]
    ELSE [t |-> [ppBuckets |-> [i \in 0..(primes[1] - 1) |-> <<>>],
                 uBucketCount |-> primes[1],
                 uLength |-> 0,
                 uPrimeIndex |-> 0],
          heap |-> [h EXCEPT !.nTable = @ + 1, !.nArray = @ + 1]]

\* the bindings met by the bucket loop, from bucket i
RECURSIVE WalkBuckets(_, _)
WalkBuckets(t, i) ==
    IF i >= t.uBucketCount THEN <<>>
    ELSE t.ppBuckets[i] \o WalkBuckets(t, i + 1)

\* the heap after SymTable_free: each binding met and its key, then the
\* bucket array, then the struct
SymTable_free(t, h) ==
    LET n == Len(WalkBuckets(t, 0))
    IN  [h EXCEPT !.nKey = @ - n, !.nBinding = @ - n,
                  !.nArray = @ - 1, !.nTable = @ - 1]

SymTable_getLength(t) == t.uLength

\* PutInsert linking the binding into bucket 0, whatever its key hashes to
PutInsert_bucket0(t, pcKey, pvValue) ==
    [t EXCEPT !.ppBuckets[0] = <<Binding(pcKey, pvValue)>> \o @,
              !.uLength = @ + 1]

\* PutInsert without uLength++
PutInsert_noCount(t, pcKey, pvValue) ==
    LET index == SymTable_hash(pcKey, t.uBucketCount)
    IN  [t EXCEPT !.ppBuckets[index] = <<Binding(pcKey, pvValue)>> \o @]

\* the insertion of a new binding at the head of bucket index
PutInsert(t, pcKey, pvValue) ==
    LET index == SymTable_hash(pcKey, t.uBucketCount)
    IN  [t EXCEPT !.ppBuckets[index] = <<Binding(pcKey, pvValue)>> \o @,
                  !.uLength = @ + 1]

\* SymTable_put storing the value in the binding of a key it finds
SymTable_put_overwrite(t, h, pcKey, pvValue, okBinding, okKey, okArray) ==
    LET index == SymTable_hash(pcKey, t.uBucketCount)
        pos == ChainFind(t.ppBuckets[index], pcKey, 1)
    IN  IF pos # 0
            THEN [t |-> [t EXCEPT !.ppBuckets[index][pos].pvValue = pvValue],
                  heap |-> h, ret |-> 0]
        ELSE IF ~okBinding THEN [t |-> t, heap |-> h, ret |-> 0]
        ELSE IF ~okKey THEN [t |-> t, heap |-> h, ret |-> 0]
        ELSE LET t1 == PutInsert(t, pcKey, pvValue)
                 h1 == [h EXCEPT !.nBinding = @ + 1, !.nKey = @ + 1]
             IN  IF t1.uLength > t1.uBucketCount
                     THEN LET e == expandTable(t1, h1, okArray)
                          IN  [t |-> e.t, heap |-> e.heap, ret |-> 1]
                     ELSE [t |-> t1, heap |-> h1, ret |-> 1]

\* SymTable_put counting the binding before the malloc of its key copy
SymTable_put_countsBeforeAlloc(t, h, pcKey, pvValue, okBinding, okKey, okArray) ==
    LET index == SymTable_hash(pcKey, t.uBucketCount)
    IN  IF ChainFind(t.ppBuckets[index], pcKey, 1) # 0
            THEN [t |-> t, heap |-> h, ret |-> 0]
        ELSE IF ~okBinding THEN [t |-> t, heap |-> h, ret |-> 0]
        ELSE IF ~okKey
            THEN [t |-> [t EXCEPT !.uLength = @ + 1], heap |-> h, ret |-> 0]
        ELSE LET t1 == PutInsert(t, pcKey, pvValue)
                 h1 == [h EXCEPT !.nBinding = @ + 1, !.nKey = @ + 1]
             IN  IF t1.uLength > t1.uBucketCount
                     THEN LET e == expandTable(t1, h1, okArray)
                          IN  [t |-> e.t, heap |-> e.heap, ret |-> 1]
                     ELSE [t |-> t1, heap |-> h1, ret |-> 1]

\* SymTable_put calling expandTable once the length exceeds the bucket
\* count by two
SymTable_put_growsLate(t, h, pcKey, pvValue, okBinding, okKey, okArray) ==
    LET index == SymTable_hash(pcKey, t.uBucketCount)
    IN  IF ChainFind(t.ppBuckets[index], pcKey, 1) # 0
            THEN [t |-> t, heap |-> h, ret |-> 0]
        ELSE IF ~okBinding THEN [t |-> t, heap |-> h, ret |-> 0]
        ELSE IF ~okKey THEN [t |-> t, heap |-> h, ret |-> 0]
        ELSE LET t1 == PutInsert(t, pcKey, pvValue)
                 h1 == [h EXCEPT !.nBinding = @ + 1, !.nKey = @ + 1]
             IN  IF t1.uLength > t1.uBucketCount + 1
                     THEN LET e == expandTable(t1, h1, okArray)
                          IN  [t |-> e.t, heap |-> e.heap, ret |-> 1]
                     ELSE [t |-> t1, heap |-> h1, ret |-> 1]

\* SymTable_put without free(pNew) when the malloc of the key copy fails
SymTable_put_leaksBinding(t, h, pcKey, pvValue, okBinding, okKey, okArray) ==
    LET index == SymTable_hash(pcKey, t.uBucketCount)
    IN  IF ChainFind(t.ppBuckets[index], pcKey, 1) # 0
            THEN [t |-> t, heap |-> h, ret |-> 0]
        ELSE IF ~okBinding THEN [t |-> t, heap |-> h, ret |-> 0]
        ELSE IF ~okKey
            THEN [t |-> t, heap |-> [h EXCEPT !.nBinding = @ + 1], ret |-> 0]
        ELSE LET t1 == PutInsert(t, pcKey, pvValue)
                 h1 == [h EXCEPT !.nBinding = @ + 1, !.nKey = @ + 1]
             IN  IF t1.uLength > t1.uBucketCount
                     THEN LET e == expandTable(t1, h1, okArray)
                          IN  [t |-> e.t, heap |-> e.heap, ret |-> 1]
                     ELSE [t |-> t1, heap |-> h1, ret |-> 1]

\* SymTable_put without the search for the key
SymTable_put_noSearch(t, h, pcKey, pvValue, okBinding, okKey, okArray) ==
    IF ~okBinding THEN [t |-> t, heap |-> h, ret |-> 0]
    ELSE IF ~okKey THEN [t |-> t, heap |-> h, ret |-> 0]
    ELSE LET t1 == PutInsert(t, pcKey, pvValue)
             h1 == [h EXCEPT !.nBinding = @ + 1, !.nKey = @ + 1]
         IN  IF t1.uLength > t1.uBucketCount
                 THEN LET e == expandTable(t1, h1, okArray)
                      IN  [t |-> e.t, heap |-> e.heap, ret |-> 1]
                 ELSE [t |-> t1, heap |-> h1, ret |-> 1]

\* SymTable_put refusing a key, as if out of memory, once the table is at
\* its last bucket count and holds a binding per bucket
SymTable_put_refusesWhenFull(t, h, pcKey, pvValue, okBinding, okKey, okArray) ==
    LET index == SymTable_hash(pcKey, t.uBucketCount)
    IN  IF ChainFind(t.ppBuckets[index], pcKey, 1) # 0
            THEN [t |-> t, heap |-> h, ret |-> 0]
        ELSE IF ~okBinding THEN [t |-> t, heap |-> h, ret |-> 0]
        ELSE IF ~okKey THEN [t |-> t, heap |-> h, ret |-> 0]
        ELSE IF t.uPrimeIndex + 1 >= numPrimes /\ t.uLength >= t.uBucketCount
            THEN [t |-> t, heap |-> h, ret |-> 0]
        ELSE LET t1 == PutInsert(t, pcKey, pvValue)
                 h1 == [h EXCEPT !.nBinding = @ + 1, !.nKey = @ + 1]
             IN  IF t1.uLength > t1.uBucketCount
                     THEN LET e == expandTable(t1, h1, okArray)
                          IN  [t |-> e.t, heap |-> e.heap, ret |-> 1]
                     ELSE [t |-> t1, heap |-> h1, ret |-> 1]

\* okBinding, okKey, okArray: whether the mallocs of the binding, of the
\* key copy and (in expandTable) of the new bucket array succeed
SymTable_put(t, h, pcKey, pvValue, okBinding, okKey, okArray) ==
    LET index == SymTable_hash(pcKey, t.uBucketCount)
    IN  IF ChainFind(t.ppBuckets[index], pcKey, 1) # 0
            THEN [t |-> t, heap |-> h, ret |-> 0]
        ELSE IF ~okBinding THEN [t |-> t, heap |-> h, ret |-> 0]
        ELSE IF ~okKey THEN [t |-> t, heap |-> h, ret |-> 0]
        ELSE LET t1 == PutInsert(t, pcKey, pvValue)
                 h1 == [h EXCEPT !.nBinding = @ + 1, !.nKey = @ + 1]
             IN  IF t1.uLength > t1.uBucketCount
                     THEN LET e == expandTable(t1, h1, okArray)
                          IN  [t |-> e.t, heap |-> e.heap, ret |-> 1]
                     ELSE [t |-> t1, heap |-> h1, ret |-> 1]

\* SymTable_replace inserting the binding when the key is not found
SymTable_replace_inserts(t, pcKey, pvValue) ==
    LET index == SymTable_hash(pcKey, t.uBucketCount)
        pos == ChainFind(t.ppBuckets[index], pcKey, 1)
    IN  IF pos # 0
            THEN [t |-> [t EXCEPT !.ppBuckets[index][pos].pvValue = pvValue],
                  ret |-> t.ppBuckets[index][pos].pvValue]
            ELSE [t |-> PutInsert(t, pcKey, pvValue), ret |-> NULL]

\* SymTable_replace reading pvOld after the new value is stored
SymTable_replace_returnsNew(t, pcKey, pvValue) ==
    LET index == SymTable_hash(pcKey, t.uBucketCount)
        pos == ChainFind(t.ppBuckets[index], pcKey, 1)
    IN  IF pos # 0
            THEN [t |-> [t EXCEPT !.ppBuckets[index][pos].pvValue = pvValue],
                  ret |-> pvValue]
            ELSE [t |-> t, ret |-> NULL]

\* SymTable_replace returning its argument when the key is not found
SymTable_replace_missReturnsArg(t, pcKey, pvValue) ==
    LET index == SymTable_hash(pcKey, t.uBucketCount)
        pos == ChainFind(t.ppBuckets[index], pcKey, 1)
    IN  IF pos # 0
            THEN [t |-> [t EXCEPT !.ppBuckets[index][pos].pvValue = pvValue],
                  ret |-> t.ppBuckets[index][pos].pvValue]
            ELSE [t |-> t, ret |-> pvValue]

SymTable_replace(t, pcKey, pvValue) ==
    LET index == SymTable_hash(pcKey, t.uBucketCount)
        pos == ChainFind(t.ppBuckets[index], pcKey, 1)
    IN  IF pos # 0
            THEN [t |-> [t EXCEPT !.ppBuckets[index][pos].pvValue = pvValue],
                  ret |-> t.ppBuckets[index][pos].pvValue]
            ELSE [t |-> t, ret |-> NULL]

SymTable_contains(t, pcKey) ==
    LET index == SymTable_hash(pcKey, t.uBucketCount)
    IN  IF ChainFind(t.ppBuckets[index], pcKey, 1) # 0 THEN 1 ELSE 0

SymTable_get(t, pcKey) ==
    LET index == SymTable_hash(pcKey, t.uBucketCount)
        pos == ChainFind(t.ppBuckets[index], pcKey, 1)
    IN  IF pos # 0 THEN t.ppBuckets[index][pos].pvValue ELSE NULL

\* SymTable_remove always unlinking as if the binding were the bucket's
\* head: the bindings before it in the chain are lost
SymTable_remove_dropsHead(t, h, pcKey) ==
    LET index == SymTable_hash(pcKey, t.uBucketCount)
        pos == ChainFind(t.ppBuckets[index], pcKey, 1)
    IN  IF pos # 0
            THEN [t |-> [t EXCEPT !.ppBuckets[index] =
                                      SubSeq(@, pos + 1, Len(@)),
                                  !.uLength = @ - 1],
                  heap |-> [h EXCEPT !.nKey = @ - 1, !.nBinding = @ - 1],
                  ret |-> t.ppBuckets[index][pos].pvValue]
            ELSE [t |-> t, heap |-> h, ret |-> NULL]

\* SymTable_remove without uLength--
SymTable_remove_noDecrement(t, h, pcKey) ==
    LET index == SymTable_hash(pcKey, t.uBucketCount)
        pos == ChainFind(t.ppBuckets[index], pcKey, 1)
    IN  IF pos # 0
            THEN [t |-> [t EXCEPT !.ppBuckets[index] = Unlink(@, pos)],
                  heap |-> [h EXCEPT !.nKey = @ - 1, !.nBinding = @ - 1],
                  ret |-> t.ppBuckets[index][pos].pvValue]
            ELSE [t |-> t, heap |-> h, ret |-> NULL]

\* SymTable_remove unlinking the bucket's head when the key is not found
SymTable_remove_missUnlinks(t, h, pcKey) ==
    LET index == SymTable_hash(pcKey, t.uBucketCount)
        pos == ChainFind(t.ppBuckets[index], pcKey, 1)
    IN  IF pos # 0
            THEN [t |-> [t EXCEPT !.ppBuckets[index] = Unlink(@, pos),
                                  !.uLength = @ - 1],
                  heap |-> [h EXCEPT !.nKey = @ - 1, !.nBinding = @ - 1],
                  ret |-> t.ppBuckets[index][pos].pvValue]
            ELSE [t |-> [t EXCEPT !.ppBuckets[index] = Unlink(@, 1)],
                  heap |-> h, ret |-> NULL]

SymTable_remove(t, h, pcKey) ==
    LET index == SymTable_hash(pcKey, t.uBucketCount)
        pos == ChainFind(t.ppBuckets[index], pcKey, 1)
    IN  IF pos # 0
            THEN [t |-> [t EXCEPT !.ppBuckets[index] = Unlink(@, pos),
                                  !.uLength = @ - 1],
                  heap |-> [h EXCEPT !.nKey = @ - 1, !.nBinding = @ - 1],
                  ret |-> t.ppBuckets[index][pos].pvValue]
            ELSE [t |-> t, heap |-> h, ret |-> NULL]

\* SymTable_map with its bucket loop starting at bucket 1
SymTable_map_fromBucket1(t) ==
    LET walk == WalkBuckets(t, 1)
    IN  [n \in 1..Len(walk) |-> <<walk[n].pcKey, walk[n].pvValue>>]

\* the calls pfApply(pcKey, pvValue, pvExtra) made, in order, as
\* <<pcKey, pvValue>> pairs
SymTable_map(t) ==
    LET walk == WalkBuckets(t, 0)
    IN  [n \in 1..Len(walk) |-> <<walk[n].pcKey, walk[n].pvValue>>]

----------------------------------------------------------------------------
(* src/symtablelist.c: struct SymTable is the head of one list of bindings
   (pHead, head first) and their number; live tells an allocated struct
   from the NULL SymTable_T *)

List_NullTable == [pHead |-> <<>>, uLength |-> 0, live |-> FALSE]

List_new(okTable) ==
    IF ~okTable THEN List_NullTable
    ELSE [pHead |-> <<>>, uLength |-> 0, live |-> TRUE]

List_getLength(t) == t.uLength

\* okBinding, okKey: whether the mallocs of the binding and of the key copy
\* succeed
List_put(t, pcKey, pvValue, okBinding, okKey) ==
    IF ChainFind(t.pHead, pcKey, 1) # 0 THEN [t |-> t, ret |-> 0]
    ELSE IF ~okBinding THEN [t |-> t, ret |-> 0]
    ELSE IF ~okKey THEN [t |-> t, ret |-> 0]
    ELSE [t |-> [t EXCEPT !.pHead = <<Binding(pcKey, pvValue)>> \o @,
                          !.uLength = @ + 1],
          ret |-> 1]

\* List_replace looking at the first binding of the list only
List_replace_headOnly(t, pcKey, pvValue) ==
    IF t.pHead # <<>> /\ t.pHead[1].pcKey = pcKey
        THEN [t |-> [t EXCEPT !.pHead[1].pvValue = pvValue],
              ret |-> t.pHead[1].pvValue]
        ELSE [t |-> t, ret |-> NULL]

List_replace(t, pcKey, pvValue) ==
    LET pos == ChainFind(t.pHead, pcKey, 1)
    IN  IF pos # 0
            THEN [t |-> [t EXCEPT !.pHead[pos].pvValue = pvValue],
                  ret |-> t.pHead[pos].pvValue]
            ELSE [t |-> t, ret |-> NULL]

List_contains(t, pcKey) ==
    IF ChainFind(t.pHead, pcKey, 1) # 0 THEN 1 ELSE 0

List_get(t, pcKey) ==
    LET pos == ChainFind(t.pHead, pcKey, 1)
    IN  IF pos # 0 THEN t.pHead[pos].pvValue ELSE NULL

List_remove(t, pcKey) ==
    LET pos == ChainFind(t.pHead, pcKey, 1)
    IN  IF pos # 0
            THEN [t |-> [t EXCEPT !.pHead = Unlink(@, pos),
                                  !.uLength = @ - 1],
                  ret |-> t.pHead[pos].pvValue]
            ELSE [t |-> t, ret |-> NULL]

\* the calls pfApply got, in list order
List_map(t) ==
    [n \in 1..Len(t.pHead) |-> <<t.pHead[n].pcKey, t.pHead[n].pvValue>>]

----------------------------------------------------------------------------
(* The table of symtablehash.c as nodes and pointers.  A node is the
   address of a struct Binding, NULL is 0; pcKey[p] is the key of node p
   (<<>> while p is not allocated), pNext[p] its pNext field, ppBuckets[i]
   the head of bucket i.  While expandTable is in its rehash loops (pc =
   "rehash") ppNewBuckets, i and pCurr are its locals. *)

Nodes == 1..NumKeys

NullLinks ==
    [pcKey |-> <<>>, pNext |-> <<>>, ppBuckets |-> <<>>,
     uBucketCount |-> 0, uLength |-> 0, uPrimeIndex |-> 0,
     pc |-> "idle", ppNewBuckets |-> <<>>, i |-> 0, pCurr |-> NULL]

\* SymTable_new: no node allocated, every bucket head NULL
Links_new ==
    [pcKey |-> [p \in Nodes |-> <<>>], pNext |-> [p \in Nodes |-> NULL],
     ppBuckets |-> [i \in 0..(primes[1] - 1) |-> NULL],
     uBucketCount |-> primes[1], uLength |-> 0, uPrimeIndex |-> 0,
     pc |-> "idle", ppNewBuckets |-> <<>>, i |-> 0, pCurr |-> NULL]

\* the nodes met by "for (pCurr = p; pCurr != NULL; pCurr = pCurr->pNext)"
\* in its first fuel iterations
RECURSIVE ChainWalk(_, _, _)
ChainWalk(pNext, p, fuel) ==
    IF p = NULL \/ fuel = 0 THEN <<>>
    ELSE <<p>> \o ChainWalk(pNext, pNext[p], fuel - 1)

\* where that loop stands after fuel iterations: NULL when it has ended
RECURSIVE WalkEnd(_, _, _)
WalkEnd(pNext, p, fuel) ==
    IF p = NULL \/ fuel = 0 THEN p
    ELSE WalkEnd(pNext, pNext[p], fuel - 1)

\* the position in walk of the first node whose key is pcKey, 0 if none
RECURSIVE NodeFind(_, _, _, _)
NodeFind(l, walk, pcKey, n) ==
    IF n > Len(walk) THEN 0
    ELSE IF l.pcKey[walk[n]] = pcKey THEN n
    ELSE NodeFind(l, walk, pcKey, n + 1)

----------------------------------------------------------------------------
(* The client: one call after another on its one table *)

\* op: the call's name, arguments and result; the calls pfApply got (after
\* SymTable_map); and, for the record, whether the key was bound when the
\* call was made (had), whether the call changed the bucket count (grew)
\* and which malloc failed in it: of the binding or of the key copy in
\* SymTable_put, of the struct or of the bucket array in SymTable_new (failed)
Call(name, pcKey, pvValue, ret) ==
    [name |-> name, key |-> pcKey, val |-> pvValue, ret |-> ret,
     visited |-> <<>>, had |-> FALSE, grew |-> FALSE, failed |-> "none"]

Had(pcKey) == SymTable_contains(oSymTable, pcKey) = 1

\* opList: the result of the call and the calls pfApply got
ListCall(ret) == [ret |-> ret, visited |-> <<>>]

\* hist while the client has made only SymTable_put calls with pairwise
\* distinct keys (and SymTable_getLength calls) on a new table: the keys put,
\* the number of those calls that returned 1 and, oldest first, their keys
HistNew == [putOnly |-> TRUE, tried |-> {}, nOk |-> 0, order |-> <<>>]

HistOff == [putOnly |-> FALSE, tried |-> {}, nOk |-> 0, order |-> <<>>]

HistPut(pcKey, ret) ==
    [putOnly |-> TRUE, tried |-> hist.tried \cup {pcKey},
     nOk |-> hist.nOk + ret,
     order |-> IF ret = 1 THEN Append(hist.order, pcKey) ELSE hist.order]

\* which malloc of a call fails, if any
MallocFailures == {"none", "binding", "key", "array"}

Init ==
    /\ oSymTable = SymTable_new(EmptyHeap, TRUE, TRUE).t
    /\ heap = SymTable_new(EmptyHeap, TRUE, TRUE).heap
    /\ charSigned \in BOOLEAN
    /\ op = Call("new", <<>>, NULL, 1)
    /\ hist = HistNew
    /\ oSymTableList = List_NullTable
    /\ opList = ListCall(0)
    /\ links = NullLinks

New ==
    /\ oSymTable = NullTable
    /\ \E okTable \in BOOLEAN, okArray \in BOOLEAN :
          LET r == SymTable_new(heap, okTable, okArray)
          IN  /\ oSymTable' = r.t
              /\ heap' = r.heap
              /\ op' = [Call("new", <<>>, NULL,
                             IF r.t = NullTable THEN 0 ELSE 1) EXCEPT
                           !.failed = IF ~okTable THEN "table"
                                      ELSE IF ~okArray THEN "array"
                                      ELSE "none"]
              /\ hist' = IF r.t = NullTable THEN HistOff ELSE HistNew
    /\ UNCHANGED <<charSigned, oSymTableList, opList, links>>

Free ==
    /\ oSymTable # NullTable
    /\ heap' = SymTable_free(oSymTable, heap)
    /\ oSymTable' = NullTable
    /\ op' = Call("free", <<>>, NULL, 0)
    /\ hist' = HistOff
    /\ UNCHANGED <<charSigned, oSymTableList, opList, links>>

GetLength ==
    /\ oSymTable # NullTable
    /\ op' = Call("getLength", <<>>, NULL, SymTable_getLength(oSymTable))
    /\ UNCHANGED <<oSymTable, heap, charSigned, hist, oSymTableList, opList,
                    links>>

\* one SymTable_put call: what it does to the table, the heap and op
PutCall(pcKey, pvValue, fails) ==
    LET r == SymTable_put(oSymTable, heap, pcKey, pvValue,
                          fails # "binding", fails # "key", fails # "array")
    IN  /\ oSymTable' = r.t
        /\ heap' = r.heap
        /\ op' = [Call("put", pcKey, pvValue, r.ret) EXCEPT
                     !.had = Had(pcKey),
                     !.grew = (r.t.uBucketCount # oSymTable.uBucketCount),
                     !.failed = IF ~Had(pcKey) /\ fails \in {"binding", "key"}
                                    THEN fails ELSE "none"]

Put ==
    /\ oSymTable # NullTable
    /\ \E pcKey \in Keys, pvValue \in Values, fails \in MallocFailures :
          PutCall(pcKey, pvValue, fails)
    /\ hist' = HistOff
    /\ UNCHANGED <<charSigned, oSymTableList, opList, links>>

\* a SymTable_put of a client that only puts keys it has not put before
PutDistinct ==
    /\ oSymTable # NullTable
    /\ hist.putOnly
    /\ \E pcKey \in Keys \ hist.tried, pvValue \in Values,
          fails \in MallocFailures :
          /\ PutCall(pcKey, pvValue, fails)
          /\ hist' = HistPut(pcKey, op'.ret)
    /\ UNCHANGED <<charSigned, oSymTableList, opList, links>>

Replace ==
    /\ oSymTable # NullTable
    /\ \E pcKey \in Keys, pvValue \in Values :
          LET r == SymTable_replace(oSymTable, pcKey, pvValue)
          IN  /\ oSymTable' = r.t
              /\ op' = [Call("replace", pcKey, pvValue, r.ret) EXCEPT
                           !.had = Had(pcKey)]
    /\ hist' = HistOff
    /\ UNCHANGED <<heap, charSigned, oSymTableList, opList, links>>

Contains ==
    /\ oSymTable # NullTable
    /\ \E pcKey \in Keys :
          op' = [Call("contains", pcKey, NULL,
                      SymTable_contains(oSymTable, pcKey)) EXCEPT
                     !.had = Had(pcKey)]
    /\ UNCHANGED <<oSymTable, heap, charSigned, hist, oSymTableList, opList,
                    links>>

\* SymTable_get moving the binding it finds to the head of its chain
Get_moveToFront ==
    /\ oSymTable # NullTable
    /\ \E pcKey \in Keys :
          LET index == SymTable_hash(pcKey, oSymTable.uBucketCount)
              pos == ChainFind(oSymTable.ppBuckets[index], pcKey, 1)
          IN  /\ op' = [Call("get", pcKey, NULL,
                             SymTable_get(oSymTable, pcKey))
                            EXCEPT !.had = Had(pcKey)]
              /\ oSymTable' =
                    IF pos = 0 THEN oSymTable
                    ELSE [oSymTable EXCEPT !.ppBuckets[index] =
                              <<@[pos]>> \o Unlink(@, pos)]
    /\ UNCHANGED <<heap, charSigned, hist, oSymTableList, opList, links>>

Get ==
    /\ oSymTable # NullTable
    /\ \E pcKey \in Keys :
          op' = [Call("get", pcKey, NULL, SymTable_get(oSymTable, pcKey))
                     EXCEPT !.had = Had(pcKey)]
    /\ UNCHANGED <<oSymTable, heap, charSigned, hist, oSymTableList, opList,
                    links>>

Remove ==
    /\ oSymTable # NullTable
    /\ \E pcKey \in Keys :
          LET r == SymTable_remove(oSymTable, heap, pcKey)
          IN  /\ oSymTable' = r.t
              /\ heap' = r.heap
              /\ op' = [Call("remove", pcKey, NULL, r.ret) EXCEPT
                           !.had = Had(pcKey)]
    /\ hist' = HistOff
    /\ UNCHANGED <<charSigned, oSymTableList, opList, links>>

\* the visitor records the calls it gets and leaves the table alone
Map ==
    /\ oSymTable # NullTable
    /\ op' = [Call("map", <<>>, NULL, 0) EXCEPT
                 !.visited = SymTable_map(oSymTable)]
    /\ UNCHANGED <<oSymTable, heap, charSigned, hist, oSymTableList, opList,
                    links>>

Next ==
    \/ New
    \/ Free
    \/ GetLength
    \/ Put
    \/ Replace
    \/ Contains
    \/ Get
    \/ Remove
    \/ Map

Spec == Init /\ [][Next]_vars

\* the client that puts pairwise distinct keys into a new table
NextDistinct ==
    \/ PutDistinct
    \/ GetLength

SpecDistinct == Init /\ [][NextDistinct]_vars

----------------------------------------------------------------------------
(* The claims *)

\* what a client sees of a table t: for each key whether it is bound, and to
\* what
Bound(t, pcKey) == SymTable_contains(t, pcKey) = 1

SameAnswers(t1, t2, pcKey) ==
    /\ SymTable_contains(t1, pcKey) = SymTable_contains(t2, pcKey)
    /\ SymTable_get(t1, pcKey) = SymTable_get(t2, pcKey)

\* how many of the calls pfApply got were for <<pcKey, pvValue>>
Visits(visited, pcKey, pvValue) ==
    Cardinality({n \in 1..Len(visited) : visited[n] = <<pcKey, pvValue>>})

\* C1: when SymTable_put(key, v) returns 1 the key is bound to v, and a
\* bound key stays bound to the same value over every call that is not a
\* SymTable_remove or SymTable_replace of that key (or SymTable_free): so
\* SymTable_get(key) returns v and SymTable_contains(key) returns 1 in every
\* later state until the key is removed or replaced, whatever is done to
\* other keys and however many resizes succeed or are abandoned.
C1_GetAfterPut ==
    [][/\ (op'.name = "put" /\ op'.ret = 1)
            => /\ SymTable_get(oSymTable', op'.key) = op'.val
               /\ SymTable_contains(oSymTable', op'.key) = 1
       /\ \A pcKey \in Keys :
            (/\ oSymTable # NullTable
             /\ Bound(oSymTable, pcKey)
             /\ op'.name # "free"
             /\ ~(op'.name \in {"remove", "replace"} /\ op'.key = pcKey))
            => /\ SymTable_get(oSymTable', pcKey)
                    = SymTable_get(oSymTable, pcKey)
               /\ SymTable_contains(oSymTable', pcKey) = 1]_vars

\* a get that finds a non-NULL value in a table that has been resized to
\* the last growth-table entry and is over its bucket count
C1_Witness ==
    /\ op.name = "get" /\ op.ret # NULL
    /\ oSymTable.uPrimeIndex = numPrimes - 1
    /\ oSymTable.uLength > oSymTable.uBucketCount

\* C2: SymTable_put of a key that is bound returns 0 and leaves the table
\* (length, every chain and value, uBucketCount, uPrimeIndex) and the heap
\* as they were: no resize is attempted.
C2_PutDuplicate ==
    [][(op'.name = "put" /\ Bound(oSymTable, op'.key))
            => /\ op'.ret = 0
               /\ oSymTable' = oSymTable
               /\ heap' = heap]_vars

\* a put of a bound key, with another value, into a table that is over its
\* bucket count and could still grow
C2_Witness ==
    /\ op.name = "put" /\ op.had /\ op.ret = 0
    /\ SymTable_get(oSymTable, op.key) # op.val
    /\ oSymTable.uLength > oSymTable.uBucketCount
    /\ oSymTable.uPrimeIndex + 1 < numPrimes

\* C3: after any sequence of SymTable_put calls with pairwise distinct keys
\* on a new table, any malloc of which may fail, SymTable_getLength is the
\* number of those calls that returned 1.
C3_LengthCountsPuts ==
    /\ SymTable_getLength(oSymTable) = hist.nOk
    /\ op.name = "getLength" => op.ret = hist.nOk

\* the length read after puts of which some failed, some succeeded and one
\* resized the table
C3_Witness ==
    /\ op.name = "getLength"
    /\ hist.nOk >= 2
    /\ Cardinality(hist.tried) > hist.nOk
    /\ oSymTable.uPrimeIndex >= 1

\* C4: SymTable_replace of a key that is not bound returns NULL and inserts
\* nothing: the table (length and every binding) is as it was and the key
\* is still not bound.
C4_ReplaceAbsent ==
    [][(op'.name = "replace" /\ ~Bound(oSymTable, op'.key))
            => /\ op'.ret = NULL
               /\ SymTable_getLength(oSymTable')
                    = SymTable_getLength(oSymTable)
               /\ SymTable_contains(oSymTable', op'.key) = 0
               /\ oSymTable' = oSymTable
               /\ heap' = heap]_vars

\* a replace, with a non-NULL value, of an unbound key in a table that is
\* not empty
C4_Witness ==
    /\ op.name = "replace" /\ ~op.had /\ op.val # NULL
    /\ oSymTable.uLength >= 1

\* C5: SymTable_replace(key, v2) of a bound key returns the value the key
\* was bound to, and binds it to v2; the length, the set of bound keys and
\* the values of the other keys are as they were.
C5_ReplacePresent ==
    [][(op'.name = "replace" /\ Bound(oSymTable, op'.key))
            => /\ op'.ret = SymTable_get(oSymTable, op'.key)
               /\ SymTable_get(oSymTable', op'.key) = op'.val
               /\ SymTable_getLength(oSymTable')
                    = SymTable_getLength(oSymTable)
               /\ \A pcKey \in Keys :
                    /\ SymTable_contains(oSymTable', pcKey)
                         = SymTable_contains(oSymTable, pcKey)
                    /\ pcKey # op'.key
                         => SymTable_get(oSymTable', pcKey)
                              = SymTable_get(oSymTable, pcKey)
               /\ heap' = heap]_vars

\* a replace of a bound key by a value other than the one it had, in a
\* table with other keys
C5_Witness ==
    /\ op.name = "replace" /\ op.had /\ op.ret # op.val
    /\ oSymTable.uLength >= 2

\* the client's table with pcKey taken out of it
WithoutKey(pcKey) == SymTable_remove(oSymTable, heap, pcKey).t

\* C6 (as claimed): what SymTable_replace returns for a key that is bound to
\* NULL differs from what it returns for that key when it is not bound (in
\* the same table with the key taken out).
C6_AbsentDistinguishable ==
    [][(/\ op'.name = "replace"
        /\ Bound(oSymTable, op'.key)
        /\ SymTable_get(oSymTable, op'.key) = NULL)
            => op'.ret
                 # SymTable_replace(WithoutKey(op'.key), op'.key, op'.val).ret
      ]_vars

\* C6 (amended): SymTable_replace returns NULL for a key that is not bound
\* and the old value for a key that is bound: the result for a bound key
\* differs from the result for the key not bound exactly when the old value
\* is not NULL, so a key bound to NULL gives the same result as a key that
\* is not bound.
C6_AbsentIsNull ==
    [][op'.name = "replace"
            => LET absent == SymTable_replace(WithoutKey(op'.key),
                                              op'.key, op'.val).ret
               IN  /\ absent = NULL
                   /\ ~Bound(oSymTable, op'.key) => op'.ret = absent
                   /\ Bound(oSymTable, op'.key)
                        => ((op'.ret # absent)
                              <=> (SymTable_get(oSymTable, op'.key) # NULL))
      ]_vars

\* a replace that returned NULL for a key that was bound (to NULL)
C6_Witness ==
    /\ op.name = "replace" /\ op.had /\ op.ret = NULL
    /\ op.val # NULL

\* C7: SymTable_remove of a bound key returns the value the key is bound
\* to, takes 1 off the length and leaves the key not bound (SymTable_get
\* gives NULL); the other keys keep their bindings and uBucketCount does
\* not shrink.
C7_RemovePresent ==
    [][(op'.name = "remove" /\ Bound(oSymTable, op'.key))
            => /\ op'.ret = SymTable_get(oSymTable, op'.key)
               /\ SymTable_getLength(oSymTable')
                    = SymTable_getLength(oSymTable) - 1
               /\ SymTable_contains(oSymTable', op'.key) = 0
               /\ SymTable_get(oSymTable', op'.key) = NULL
               /\ \A pcKey \in Keys \ {op'.key} :
                    SameAnswers(oSymTable', oSymTable, pcKey)
               /\ oSymTable'.uBucketCount >= oSymTable.uBucketCount
               /\ oSymTable'.uPrimeIndex = oSymTable.uPrimeIndex]_vars

\* a remove of a key bound to a non-NULL value that leaves other keys, in
\* a table that has grown and now holds fewer bindings than buckets
C7_Witness ==
    /\ op.name = "remove" /\ op.had /\ op.ret # NULL
    /\ oSymTable.uLength >= 1
    /\ oSymTable.uPrimeIndex >= 1
    /\ oSymTable.uLength < oSymTable.uBucketCount

\* C8: SymTable_remove of a key that is not bound returns NULL and changes
\* nothing: the table (length, every chain, uBucketCount, uPrimeIndex) and
\* the heap are as they were.
C8_RemoveAbsent ==
    [][(op'.name = "remove" /\ ~Bound(oSymTable, op'.key))
            => /\ op'.ret = NULL
               /\ oSymTable' = oSymTable
               /\ heap' = heap]_vars

\* a remove of an unbound key from a table that holds other keys
C8_Witness ==
    /\ op.name = "remove" /\ ~op.had
    /\ oSymTable.uLength >= 2

\* C9: SymTable_map calls pfApply once for each binding of the table and
\* for nothing else: each <<key, value>> is visited once if the key is
\* bound to the value and not at all otherwise, there are as many visits
\* as bindings, and the table is as it was.
C9_MapVisitsEachOnce ==
    [][op'.name = "map"
            => /\ \A pcKey \in Keys, pvValue \in Values :
                    Visits(op'.visited, pcKey, pvValue)
                      = IF /\ Bound(oSymTable, pcKey)
                           /\ SymTable_get(oSymTable, pcKey) = pvValue
                            THEN 1 ELSE 0
               /\ \A n \in 1..Len(op'.visited) :
                    /\ op'.visited[n][1] \in Keys
                    /\ op'.visited[n][2] \in Values
               /\ Len(op'.visited) = SymTable_getLength(oSymTable)
               /\ oSymTable' = oSymTable
               /\ heap' = heap]_vars

\* a traversal of two or more bindings of a table that has grown to the
\* last growth-table entry and has had a binding removed since
C9_Witness ==
    /\ op.name = "map" /\ Len(op.visited) >= 2
    /\ oSymTable.uPrimeIndex = numPrimes - 1
    /\ oSymTable.uLength < oSymTable.uBucketCount

\* C10: a resize leaves the bindings and the length as they were: after a
\* SymTable_put that grew the table, the length, the answers of
\* SymTable_contains and SymTable_get for every key, what SymTable_remove
\* of any key returns and the pairs SymTable_map visits are those of the
\* table as it was after the insertion and before the resize.
C10_ResizeTransparent ==
    [][(op'.name = "put" /\ op'.ret = 1
            /\ oSymTable'.uPrimeIndex # oSymTable.uPrimeIndex)
            => LET before == PutInsert(oSymTable, op'.key, op'.val)
               IN  /\ SymTable_getLength(oSymTable')
                        = SymTable_getLength(before)
                   /\ \A pcKey \in Keys :
                        /\ SameAnswers(oSymTable', before, pcKey)
                        /\ SymTable_remove(oSymTable', heap', pcKey).ret
                             = SymTable_remove(before, heap', pcKey).ret
                        /\ \A pvValue \in Values :
                             Visits(SymTable_map(oSymTable'), pcKey, pvValue)
                               = Visits(SymTable_map(before), pcKey, pvValue)
                   /\ oSymTable'.uPrimeIndex = oSymTable.uPrimeIndex + 1
                   /\ oSymTable'.uBucketCount
                        = primes[oSymTable'.uPrimeIndex + 1]]_vars

\* a put that grew the table to its last growth-table entry, the second
\* resize of a table holding three bindings
C10_Witness ==
    /\ op.name = "put" /\ op.grew
    /\ oSymTable.uPrimeIndex = numPrimes - 1
    /\ oSymTable.uLength >= 3

\* C12: when the malloc of the new binding or of its key copy fails in
\* SymTable_put, the call returns 0 and the table (length, every chain,
\* uBucketCount, uPrimeIndex) is as it was, and so is the heap: nothing
\* allocated in the call stays allocated, the binding allocated before the
\* key copy failed included.
C12_PutAllocFailure ==
    [][(op'.name = "put" /\ op'.failed \in {"binding", "key"})
            => /\ op'.ret = 0
               /\ oSymTable' = oSymTable
               /\ heap' = heap
               /\ SymTable_contains(oSymTable', op'.key) = 0]_vars

\* a put whose key copy could not be allocated, into a table with as many
\* bindings as buckets (the put would have grown it)
C12_Witness ==
    /\ op.name = "put" /\ op.failed = "key" /\ op.ret = 0
    /\ oSymTable.uLength >= 1
    /\ oSymTable.uLength >= oSymTable.uBucketCount

\* C13: when a SymTable_put inserts a binding that takes the length over
\* uBucketCount, the table can still grow and uBucketCount stays as it was
\* (the new bucket array could not be allocated), the table is the table
\* after the insertion (uBucketCount, uPrimeIndex and every chain), the put
\* returned 1 with the key bound, no bucket array was allocated or freed,
\* the length still exceeds uBucketCount, and the next successful
\* SymTable_put whose malloc of the bucket array succeeds grows the table
\* by one step.
C13_AbandonedResize ==
    [][(/\ op'.name = "put" /\ op'.ret = 1
        /\ oSymTable.uLength + 1 > oSymTable.uBucketCount
        /\ oSymTable.uPrimeIndex + 1 < numPrimes
        /\ oSymTable'.uBucketCount = oSymTable.uBucketCount)
            => /\ oSymTable' = PutInsert(oSymTable, op'.key, op'.val)
               /\ SymTable_get(oSymTable', op'.key) = op'.val
               /\ SymTable_contains(oSymTable', op'.key) = 1
               /\ heap' = [heap EXCEPT !.nBinding = @ + 1, !.nKey = @ + 1]
               /\ oSymTable'.uLength > oSymTable'.uBucketCount
               /\ \A pcKey \in Keys, pvValue \in Values :
                    ~Bound(oSymTable', pcKey)
                      => LET r == SymTable_put(oSymTable', heap', pcKey,
                                               pvValue, TRUE, TRUE, TRUE)
                         IN  /\ r.ret = 1
                             /\ r.t.uPrimeIndex = oSymTable'.uPrimeIndex + 1
                             /\ r.t.uBucketCount
                                  = primes[oSymTable'.uPrimeIndex + 2]]_vars

\* a put whose resize was abandoned for the second time in a row: the
\* table holds two more bindings than buckets and could still grow, and
\* one key is left to put
C13_Witness ==
    /\ op.name = "put" /\ op.ret = 1 /\ ~op.grew
    /\ oSymTable.uPrimeIndex + 1 < numPrimes
    /\ oSymTable.uLength >= oSymTable.uBucketCount + 2
    /\ \E pcKey \in Keys : ~Bound(oSymTable, pcKey)

\* C14: no two bindings of the table, in one chain or in two, have the same
\* key, in every state.
C14_KeysUnique ==
    oSymTable # NullTable =>
        LET walk == WalkBuckets(oSymTable, 0)
        IN  \A i \in 1..Len(walk), j \in 1..Len(walk) :
                i # j => walk[i].pcKey # walk[j].pcKey

\* a put of a bound key into a grown table of three or more bindings
C14_Witness ==
    /\ op.name = "put" /\ op.had
    /\ oSymTable.uPrimeIndex >= 1
    /\ oSymTable.uLength >= 3

\* C15: in every state each binding is in the bucket whose index is
\* SymTable_hash of its key and the table's uBucketCount.
C15_BucketOfHash ==
    oSymTable # NullTable =>
        \A i \in 0..(oSymTable.uBucketCount - 1) :
            \A n \in 1..Len(oSymTable.ppBuckets[i]) :
                SymTable_hash(oSymTable.ppBuckets[i][n].pcKey,
                              oSymTable.uBucketCount) = i

\* a table that grew twice, is at its last bucket count and holds more
\* bindings than buckets, in two or more chains
C15_Witness ==
    /\ oSymTable.uPrimeIndex = numPrimes - 1
    /\ oSymTable.uLength > oSymTable.uBucketCount
    /\ Cardinality({i \in 0..(oSymTable.uBucketCount - 1) :
                        oSymTable.ppBuckets[i] # <<>>}) >= 2

\* the sum of the lengths of the chains of buckets i.. of t
RECURSIVE ChainLengths(_, _)
ChainLengths(t, i) ==
    IF i >= t.uBucketCount THEN 0
    ELSE Len(t.ppBuckets[i]) + ChainLengths(t, i + 1)

\* C16: in every state uLength is the number of bindings in the chains of
\* all buckets.
C16_LengthIsChainSum ==
    oSymTable # NullTable =>
        SymTable_getLength(oSymTable) = ChainLengths(oSymTable, 0)

\* a put that failed on the malloc of the key copy, on a grown table with
\* bindings in two or more chains
C16_Witness ==
    /\ op.name = "put" /\ op.failed = "key"
    /\ oSymTable.uPrimeIndex >= 1
    /\ Cardinality({i \in 0..(oSymTable.uBucketCount - 1) :
                        oSymTable.ppBuckets[i] # <<>>}) >= 2

\* C17: a new table has length 0, empty buckets and the first growth-table
\* entry as uBucketCount; uBucketCount is always primes[uPrimeIndex] and at
\* most the last entry; no call on the table makes uBucketCount or
\* uPrimeIndex smaller, only SymTable_put changes them, and one
\* SymTable_put advances uPrimeIndex by at most one.
C17_GrowthSteps ==
    /\ [](oSymTable # NullTable =>
            /\ oSymTable.uPrimeIndex \in 0..(numPrimes - 1)
            /\ oSymTable.uBucketCount = primes[oSymTable.uPrimeIndex + 1]
            /\ oSymTable.uBucketCount <= primes[numPrimes]
            /\ (op.name = "new" =>
                    /\ oSymTable.uLength = 0
                    /\ oSymTable.uPrimeIndex = 0
                    /\ oSymTable.uBucketCount = primes[1]
                    /\ \A i \in 0..(oSymTable.uBucketCount - 1) :
                           oSymTable.ppBuckets[i] = <<>>))
    /\ [][(oSymTable # NullTable /\ oSymTable' # NullTable)
            => /\ oSymTable'.uBucketCount >= oSymTable.uBucketCount
               /\ oSymTable'.uPrimeIndex >= oSymTable.uPrimeIndex
               /\ oSymTable'.uPrimeIndex <= oSymTable.uPrimeIndex + 1
               /\ op'.name # "put"
                    => /\ oSymTable'.uPrimeIndex = oSymTable.uPrimeIndex
                       /\ oSymTable'.uBucketCount = oSymTable.uBucketCount
      ]_vars

\* a put that grew the table by one step and left it with more bindings
\* than buckets (earlier resizes were abandoned)
C17_Witness ==
    /\ op.name = "put" /\ op.grew
    /\ oSymTable.uPrimeIndex = 1
    /\ oSymTable.uLength > oSymTable.uBucketCount

\* C18: at the last growth-table entry, a SymTable_put of an unbound key
\* whose binding and key copy are allocated, and which takes the length
\* over uBucketCount, returns 1 and inserts the binding; it allocates no
\* bucket array (it does the same whether or not that malloc would
\* succeed) and leaves uBucketCount and uPrimeIndex as they were, the
\* length now exceeding uBucketCount.
C18_CappedGrowth ==
    [][(/\ op'.name = "put" /\ ~Bound(oSymTable, op'.key)
        /\ op'.failed = "none"
        /\ oSymTable.uPrimeIndex + 1 >= numPrimes
        /\ oSymTable.uLength + 1 > oSymTable.uBucketCount)
            => /\ op'.ret = 1
               /\ oSymTable' = PutInsert(oSymTable, op'.key, op'.val)
               /\ SymTable_contains(oSymTable', op'.key) = 1
               /\ oSymTable'.uBucketCount = oSymTable.uBucketCount
               /\ oSymTable'.uPrimeIndex = oSymTable.uPrimeIndex
               /\ oSymTable'.uLength > oSymTable'.uBucketCount
               /\ heap'.nArray = heap.nArray
               /\ SymTable_put(oSymTable, heap, op'.key, op'.val,
                               TRUE, TRUE, FALSE)
                    = SymTable_put(oSymTable, heap, op'.key, op'.val,
                                   TRUE, TRUE, TRUE)]_vars

\* a put that took a table at the last growth-table entry over its bucket
\* count
C18_Witness ==
    /\ op.name = "put" /\ op.ret = 1 /\ ~op.had
    /\ oSymTable.uPrimeIndex = numPrimes - 1
    /\ oSymTable.uLength > oSymTable.uBucketCount

\* the place of a key among the keys put with success, oldest first
PutOrder(pcKey) == CHOOSE i \in 1..Len(hist.order) : hist.order[i] = pcKey

\* of two bindings of a chain, the one put later is nearer the head
NewestFirst(chain) ==
    \A m \in 1..Len(chain), n \in 1..Len(chain) :
        m < n => PutOrder(chain[m].pcKey) > PutOrder(chain[n].pcKey)

Reverse(s) == [i \in 1..Len(s) |-> s[Len(s) + 1 - i]]

\* the bindings of a walk whose keys hash to bucket j of uBucketCount
\* buckets, in the order of the walk
HashingTo(walk, j, uBucketCount) ==
    LET InBucket(pBinding) ==
            SymTable_hash(pBinding.pcKey, uBucketCount) = j
    IN  SelectSeq(walk, InBucket)

-----------------------------------------------------------------------------
(* SymTable_hash on its own: keys with bytes on both sides of 128, short
   and long enough for uHash to wrap, and the bucket counts of the source's
   growth table next to those of the model *)

HashKeys ==
    { <<97>>, <<127>>, <<128>>, <<200>>, <<255>>,
      <<97, 98>>, <<97, 200>>, <<200, 97>>,
      <<104, 101, 108, 108, 111, 119, 111, 114, 108, 100>>,
      <<104, 195, 169, 108, 108, 111, 119, 195, 182, 114, 108, 100>> }

HashBucketCounts ==
    {1, 2, 3, 509, 1021, 2039, 4093, 8191, 16381, 32749, 65521}

InitHash ==
    /\ oSymTable = NullTable
    /\ heap = EmptyHeap
    /\ charSigned \in BOOLEAN
    /\ op = Call("none", <<>>, NULL, 0)
    /\ hist = HistOff
    /\ oSymTableList = List_NullTable
    /\ opList = ListCall(0)
    /\ links = NullLinks

\* a call SymTable_hash(pcKey, uBucketCount); op.val holds uBucketCount
Hash ==
    /\ \E pcKey \in HashKeys, uBucketCount \in HashBucketCounts :
          op' = Call("hash", pcKey, uBucketCount,
                     HashOf(pcKey, uBucketCount, charSigned))
    /\ UNCHANGED <<oSymTable, heap, charSigned, hist, oSymTableList, opList,
                    links>>

NextHash == Hash

SpecHash == InitHash /\ [][NextHash]_vars

\* C20 as stated: SymTable_hash(key, bucketCount) is the fold of
\* hash * 65599 + byte over the key's bytes, each byte taken as its value
\* in 0..255, wrapping at the width of size_t, reduced modulo bucketCount,
\* and lies in [0, bucketCount).
C20_HashIsByteFold ==
    op.name = "hash" =>
        /\ op.ret = HashOf(op.key, op.val, FALSE)
        /\ op.ret \in 0..(op.val - 1)

-----------------------------------------------------------------------------
(* Two clients making the same calls, one linked with symtablehash.c and one
   with symtablelist.c, no malloc failing *)

InitPair ==
    /\ oSymTable = SymTable_new(EmptyHeap, TRUE, TRUE).t
    /\ heap = SymTable_new(EmptyHeap, TRUE, TRUE).heap
    /\ charSigned \in BOOLEAN
    /\ op = Call("new", <<>>, NULL, 1)
    /\ hist = HistOff
    /\ oSymTableList = List_new(TRUE)
    /\ opList = ListCall(IF List_new(TRUE).live THEN 1 ELSE 0)
    /\ links = NullLinks

PairGetLength ==
    /\ op' = Call("getLength", <<>>, NULL, SymTable_getLength(oSymTable))
    /\ opList' = ListCall(List_getLength(oSymTableList))
    /\ UNCHANGED <<oSymTable, heap, charSigned, hist, oSymTableList, links>>

PairPut ==
    /\ \E pcKey \in Keys, pvValue \in Values :
          LET l == List_put(oSymTableList, pcKey, pvValue, TRUE, TRUE)
          IN  /\ PutCall(pcKey, pvValue, "none")
              /\ oSymTableList' = l.t
              /\ opList' = ListCall(l.ret)
    /\ UNCHANGED <<charSigned, hist, links>>

PairReplace ==
    /\ \E pcKey \in Keys, pvValue \in Values :
          LET r == SymTable_replace(oSymTable, pcKey, pvValue)
              l == List_replace(oSymTableList, pcKey, pvValue)
          IN  /\ oSymTable' = r.t
              /\ op' = [Call("replace", pcKey, pvValue, r.ret) EXCEPT
                           !.had = Had(pcKey)]
              /\ oSymTableList' = l.t
              /\ opList' = ListCall(l.ret)
    /\ UNCHANGED <<heap, charSigned, hist, links>>

PairContains ==
    /\ \E pcKey \in Keys :
          /\ op' = [Call("contains", pcKey, NULL,
                         SymTable_contains(oSymTable, pcKey)) EXCEPT
                        !.had = Had(pcKey)]
          /\ opList' = ListCall(List_contains(oSymTableList, pcKey))
    /\ UNCHANGED <<oSymTable, heap, charSigned, hist, oSymTableList, links>>

PairGet ==
    /\ \E pcKey \in Keys :
          /\ op' = [Call("get", pcKey, NULL, SymTable_get(oSymTable, pcKey))
                        EXCEPT !.had = Had(pcKey)]
          /\ opList' = ListCall(List_get(oSymTableList, pcKey))
    /\ UNCHANGED <<oSymTable, heap, charSigned, hist, oSymTableList, links>>

PairRemove ==
    /\ \E pcKey \in Keys :
          LET r == SymTable_remove(oSymTable, heap, pcKey)
              l == List_remove(oSymTableList, pcKey)
          IN  /\ oSymTable' = r.t
              /\ heap' = r.heap
              /\ op' = [Call("remove", pcKey, NULL, r.ret) EXCEPT
                           !.had = Had(pcKey)]
              /\ oSymTableList' = l.t
              /\ opList' = ListCall(l.ret)
    /\ UNCHANGED <<charSigned, hist, links>>

PairMap ==
    /\ op' = [Call("map", <<>>, NULL, 0) EXCEPT
                 !.visited = SymTable_map(oSymTable)]
    /\ opList' = [ListCall(0) EXCEPT !.visited = List_map(oSymTableList)]
    /\ UNCHANGED <<oSymTable, heap, charSigned, hist, oSymTableList, links>>

NextPair ==
    \/ PairGetLength
    \/ PairPut
    \/ PairReplace
    \/ PairContains
    \/ PairGet
    \/ PairRemove
    \/ PairMap

SpecPair == InitPair /\ [][NextPair]_vars

\* C11: after the same calls (new, then any of put, replace, contains, get,
\* remove, getLength, map, with the same arguments and no malloc failing)
\* the last call returned the same value from symtablehash.c and from
\* symtablelist.c, and SymTable_map made the same number of pfApply calls
\* for every (key, value) pair in both.
C11_SameObservations ==
    /\ op.ret = opList.ret
    /\ Len(op.visited) = Len(opList.visited)
    /\ \A pcKey \in Keys, pvValue \in Values :
          Visits(op.visited, pcKey, pvValue)
            = Visits(opList.visited, pcKey, pvValue)

\* a map over three or more bindings of a grown table that the two
\* implementations visited in different orders
C11_Witness ==
    /\ op.name = "map"
    /\ Len(op.visited) >= 3
    /\ op.visited # opList.visited
    /\ oSymTable.uPrimeIndex >= 1

\* C21: SymTable_get, SymTable_contains and SymTable_getLength leave the
\* table (every chain and its order, uLength, uBucketCount, uPrimeIndex)
\* and the heap as they were, for a bound key and for an unbound one, and
\* the same call made again returns the same result.
C21_QueriesChangeNothing ==
    [][(op'.name \in {"get", "contains", "getLength"})
            => /\ oSymTable' = oSymTable
               /\ heap' = heap
               /\ op'.name = "get"
                    => SymTable_get(oSymTable', op'.key) = op'.ret
               /\ op'.name = "contains"
                    => SymTable_contains(oSymTable', op'.key) = op'.ret
               /\ op'.name = "getLength"
                    => SymTable_getLength(oSymTable') = op'.ret
               /\ (op.name = op'.name /\ op.key = op'.key)
                    => op'.ret = op.ret]_vars

\* a get of a key whose binding is not the first of its chain
C21_Witness ==
    /\ op.name = "get" /\ op.had
    /\ LET chain == oSymTable.ppBuckets[SymTable_hash(op.key,
                                            oSymTable.uBucketCount)]
       IN  ChainFind(chain, op.key, 1) >= 2

\* C22: between calls the live allocations of the module are the struct,
\* one bucket array, and one binding and one key copy for each bound key
\* (so a resize has released the old array and a remove its binding and
\* key); after SymTable_free, and after a SymTable_new that returned NULL
\* (the malloc of the bucket array failing included), there is none: each
\* was released once.
C22_HeapAccounts ==
    /\ oSymTable # NullTable =>
         LET n == Cardinality({pcKey \in Keys : Bound(oSymTable, pcKey)})
         IN  heap = [nTable |-> 1, nArray |-> 1,
                     nBinding |-> n, nKey |-> n]
    /\ oSymTable = NullTable => heap = EmptyHeap
    /\ (op.name = "new" /\ op.failed # "none") =>
         /\ op.ret = 0
         /\ oSymTable = NullTable

\* a SymTable_new whose struct was allocated and whose bucket array was
\* not, after the table before it was freed
C22_Witness ==
    /\ op.name = "new" /\ op.failed = "array"
    /\ oSymTable = NullTable

\* C24: while no malloc fails, after every call either the length is at
\* most uBucketCount or uPrimeIndex is at the last entry of the growth
\* table: the one step a SymTable_put grows the table by brings the bucket
\* count back to the length or above.
C24_LoadFactor ==
    \/ oSymTable.uLength <= oSymTable.uBucketCount
    \/ oSymTable.uPrimeIndex = numPrimes - 1

\* a put has just grown the table by one step, to a bucket count that is
\* exactly the length, with a step of the growth table left
C24_Witness ==
    /\ op.name = "put" /\ op.grew
    /\ oSymTable.uLength = oSymTable.uBucketCount
    /\ oSymTable.uPrimeIndex + 1 < numPrimes

-----------------------------------------------------------------------------
(* The calls that relink bindings, SymTable_put (with expandTable, one
   iteration of its rehash loops at a time) and SymTable_remove, on the
   table as nodes and pointers *)

\* expandTable up to its rehash loops: the new array allocated and
\* cleared, i = 0, pCurr = ppBuckets[0]
Links_expandStart(l, mallocOk) ==
    IF l.uPrimeIndex + 1 >= numPrimes THEN l
    ELSE IF ~mallocOk THEN l
    ELSE [l EXCEPT !.pc = "rehash",
                   !.ppNewBuckets =
                       [i \in 0..(primes[l.uPrimeIndex + 2] - 1) |-> NULL],
                   !.i = 0,
                   !.pCurr = l.ppBuckets[0]]

\* pNew: the node malloc returns for the binding
Links_put(l, pcKey, pNew, okArray) ==
    LET index == SymTable_hash(pcKey, l.uBucketCount)
        walk == ChainWalk(l.pNext, l.ppBuckets[index], NumKeys)
    IN  IF NodeFind(l, walk, pcKey, 1) # 0 THEN l
        ELSE LET l1 == [l EXCEPT !.pcKey[pNew] = pcKey,
                                 !.pNext[pNew] = l.ppBuckets[index],
                                 !.ppBuckets[index] = pNew,
                                 !.uLength = @ + 1]
             IN  IF l1.uLength > l1.uBucketCount
                     THEN Links_expandStart(l1, okArray)
                     ELSE l1

\* the body of the inner loop with pCurr->pNext read after it is
\* overwritten
RelinkBinding_noSave(l) ==
    LET newIndex == SymTable_hash(l.pcKey[l.pCurr],
                                  primes[l.uPrimeIndex + 2])
    IN  [l EXCEPT !.pNext[l.pCurr] = l.ppNewBuckets[newIndex],
                  !.ppNewBuckets[newIndex] = l.pCurr,
                  !.pCurr = l.ppNewBuckets[newIndex]]

\* the body of the inner loop, for the binding pCurr
RelinkBinding(l) ==
    LET pNext == l.pNext[l.pCurr]
        newIndex == SymTable_hash(l.pcKey[l.pCurr],
                                  primes[l.uPrimeIndex + 2])
    IN  [l EXCEPT !.pNext[l.pCurr] = l.ppNewBuckets[newIndex],
                  !.ppNewBuckets[newIndex] = l.pCurr,
                  !.pCurr = pNext]

\* the outer loop going to its next bucket
RelinkNextBucket(l) ==
    [l EXCEPT !.i = @ + 1, !.pCurr = l.ppBuckets[l.i + 1]]

\* after the loops: the old array freed, the new one and its count stored
RelinkEnd(l) ==
    [l EXCEPT !.ppBuckets = l.ppNewBuckets,
              !.uBucketCount = primes[l.uPrimeIndex + 2],
              !.uPrimeIndex = @ + 1,
              !.pc = "idle", !.ppNewBuckets = <<>>, !.i = 0,
              !.pCurr = NULL]

\* the freed node reads as an unallocated one
Links_remove(l, pcKey) ==
    LET index == SymTable_hash(pcKey, l.uBucketCount)
        walk == ChainWalk(l.pNext, l.ppBuckets[index], NumKeys)
        n == NodeFind(l, walk, pcKey, 1)
    IN  IF n = 0 THEN l
        ELSE LET pCurr == walk[n]
                 unlinked ==
                     IF n = 1
                         THEN [l EXCEPT !.ppBuckets[index] = l.pNext[pCurr]]
                         ELSE [l EXCEPT !.pNext[walk[n - 1]] =
                                            l.pNext[pCurr]]
             IN  [unlinked EXCEPT !.pcKey[pCurr] = <<>>,
                                  !.pNext[pCurr] = NULL,
                                  !.uLength = @ - 1]

InitLinks ==
    /\ oSymTable = NullTable
    /\ heap = EmptyHeap
    /\ charSigned \in BOOLEAN
    /\ op = Call("none", <<>>, NULL, 0)
    /\ hist = HistOff
    /\ oSymTableList = List_NullTable
    /\ opList = ListCall(0)
    /\ links = Links_new

LinkPut ==
    /\ links.pc = "idle"
    /\ \E pcKey \in Keys, pNew \in Nodes, okArray \in BOOLEAN :
          /\ links.pcKey[pNew] = <<>>
          /\ links' = Links_put(links, pcKey, pNew, okArray)
    /\ UNCHANGED <<oSymTable, heap, charSigned, op, hist, oSymTableList,
                   opList>>

LinkRemove ==
    /\ links.pc = "idle"
    /\ \E pcKey \in Keys : links' = Links_remove(links, pcKey)
    /\ UNCHANGED <<oSymTable, heap, charSigned, op, hist, oSymTableList,
                   opList>>

LinkRelinkBinding ==
    /\ links.pc = "rehash"
    /\ links.pCurr # NULL
    /\ links' = RelinkBinding(links)
    /\ UNCHANGED <<oSymTable, heap, charSigned, op, hist, oSymTableList,
                   opList>>

LinkNextBucket ==
    /\ links.pc = "rehash"
    /\ links.pCurr = NULL
    /\ links.i + 1 < links.uBucketCount
    /\ links' = RelinkNextBucket(links)
    /\ UNCHANGED <<oSymTable, heap, charSigned, op, hist, oSymTableList,
                   opList>>

LinkRelinkEnd ==
    /\ links.pc = "rehash"
    /\ links.pCurr = NULL
    /\ links.i + 1 >= links.uBucketCount
    /\ links' = RelinkEnd(links)
    /\ UNCHANGED <<oSymTable, heap, charSigned, op, hist, oSymTableList,
                   opList>>

NextLinks ==
    \/ LinkPut
    \/ LinkRemove
    \/ LinkRelinkBinding
    \/ LinkNextBucket
    \/ LinkRelinkEnd

SpecLinks == InitLinks /\ [][NextLinks]_vars

\* the walks of buckets i..n-1 of an array of bucket heads, one after the
\* other
RECURSIVE BucketWalks(_, _, _, _)
BucketWalks(pNext, ppHeads, i, n) ==
    IF i >= n THEN <<>>
    ELSE ChainWalk(pNext, ppHeads[i], NumKeys + 1)
             \o BucketWalks(pNext, ppHeads, i + 1, n)

\* the heads a walk of the code can start from: the buckets of the table;
\* inside expandTable's loops the buckets of the new array, pCurr (what is
\* left of the old chain being moved) and the old buckets not yet reached
LiveHeads(l) ==
    IF l.pc = "idle"
        THEN {l.ppBuckets[i] : i \in 0..(l.uBucketCount - 1)}
        ELSE {l.ppNewBuckets[i] : i \in DOMAIN l.ppNewBuckets}
                 \cup {l.pCurr}
                 \cup {l.ppBuckets[i] : i \in (l.i + 1)..(l.uBucketCount - 1)}

\* the nodes of all those chains, chain after chain
LiveWalks(l) ==
    IF l.pc = "idle"
        THEN BucketWalks(l.pNext, l.ppBuckets, 0, l.uBucketCount)
        ELSE BucketWalks(l.pNext, l.ppNewBuckets, 0,
                         primes[l.uPrimeIndex + 2])
                 \o ChainWalk(l.pNext, l.pCurr, NumKeys + 1)
                 \o BucketWalks(l.pNext, l.ppBuckets, l.i + 1,
                                l.uBucketCount)

\* C23: in every state, between calls and between any two iterations of
\* expandTable's rehash loops, every allocated binding is met exactly once
\* by the walks of the chains (in the loops: the chains of the new array,
\* the rest of the old chain from pCurr and the old buckets not yet
\* reached: never in two of them, never in none), no unallocated node is
\* met, and every walk from a head reaches NULL within as many steps as
\* there are bindings: chains are finite and acyclic and the walks of the
\* code end.
C23_OneChainEach ==
    LET walks == LiveWalks(links)
    IN  /\ \A p \in Nodes :
              Cardinality({n \in 1..Len(walks) : walks[n] = p})
                = IF links.pcKey[p] # <<>> THEN 1 ELSE 0
        /\ Len(walks) = links.uLength
        /\ \A pHead \in LiveHeads(links) :
              WalkEnd(links.pNext, pHead, links.uLength) = NULL

\* inside the rehash loops: a chain of two bindings already in the new
\* array, and bindings still in the old one
C23_Witness ==
    /\ links.pc = "rehash"
    /\ \E i \in DOMAIN links.ppNewBuckets :
          Len(ChainWalk(links.pNext, links.ppNewBuckets[i], NumKeys)) >= 2
    /\ links.pCurr # NULL

====
